---- MODULE Spec2Model ----
(***************************************************************************)
(* Model of run.py: the resumable two-provider subtitle downloader.        *)
(*                                                                         *)
(* One process at a time runs main(): it loads the checkpoint, walks the   *)
(* CSV rows in order, skips rows whose checkpoint entry is done, and for   *)
(* the others calls process_video (VoiceTube phase, then YouTube phase,    *)
(* each through download_with_retry), stores the returned entry and        *)
(* rewrites the checkpoint file.  The environment chooses every HTTP       *)
(* response, may make a file write raise, and may kill the process at any  *)
(* point; the files on disk survive, the memory of the process does not.   *)
(***************************************************************************)
EXTENDS Integers, Sequences, FiniteSets, TLC

(***************************************************************************)
(* Program constants (run.py lines 14-21).                                 *)
(***************************************************************************)
MAX_RETRIES == 3

STATUS_OK == "ok"
STATUS_NO_SUBTITLE == "no_subtitle"
STATUS_FAILED == "failed"

Statuses == {STATUS_OK, STATUS_NO_SUBTITLE, STATUS_FAILED}

\* The two providers, in the order process_video handles them.
VT == "VT"
YT == "YT"
Providers == {VT, YT}

(***************************************************************************)
(* Bounds of the model.                                                    *)
(***************************************************************************)
NumRows == 2      \* rows of the CSV file
MaxLines == 2     \* caption lines / segments in one response body
MaxTime == 2      \* the clock saturates here (time.time() is unbounded)
MaxCap == 2       \* largest session cap the model is run with

(***************************************************************************)
(* MAX_PER_SESSION (line 14) is 100 in the source.  A list of NumRows rows *)
(* never reaches 100, so the model runs the same loop with the cap scaled  *)
(* down: it is fixed when a behaviour starts, to any value in SessionCaps, *)
(* which covers the inputs larger than the cap and those within it.        *)
(***************************************************************************)
SessionCaps == 1..MaxCap

(***************************************************************************)
(* Inputs: the CSV rows.  A row is {id, vtid, ytid}; an identifier may be  *)
(* empty, and nothing in the program forbids two rows with the same id.    *)
(***************************************************************************)
RowIds == {"r1", "r2", "r3"}
VtIds == {"", "v1", "v2"}
YtIds == {"", "y1", "y2"}

Min(a, b) == IF a < b THEN a ELSE b

\* Python dict.get(key, default) on a dict modelled as a function.
Get(d, k, default) == IF k \in DOMAIN d THEN d[k] ELSE default

\* The empty dict {} (progress.get(row_id, {}) of line 291, load_progress's {}).
EmptyDict == [k \in {} |-> 0]

\* dict with d[k] = v added or replaced (progress[row_id] = ... of line 299).
Put(d, k, v) == [x \in (DOMAIN d) \cup {k} |-> IF x = k THEN v ELSE d[x]]

(***************************************************************************)
(* is_done (lines 44-48): entry.get(key) is None for a missing key, and    *)
(* None is not in (STATUS_OK, STATUS_NO_SUBTITLE).                         *)
(***************************************************************************)
None == "None"

\* A variant that looks at the VoiceTube status only.
is_done_vt_only(e) ==
    Get(e, "vt_status", None) \in {STATUS_OK, STATUS_NO_SUBTITLE}

is_done(e) ==
    LET vt_done == Get(e, "vt_status", None) \in {STATUS_OK, STATUS_NO_SUBTITLE}
        yt_done == Get(e, "yt_status", None) \in {STATUS_OK, STATUS_NO_SUBTITLE}
    IN  vt_done /\ yt_done

(***************************************************************************)
(* HTTP responses, as far as the adapters read them.  "error" is a         *)
(* transport error or an unparseable body (requests raises); an "http"     *)
(* response has a status code and a body reduced to its list of caption    *)
(* lines (provider A) or initial segments (provider B); << >> stands for   *)
(* a body in which that list is absent or empty.  A line is "text" when    *)
(* it carries the nested text and "notext" when it lacks it.               *)
(***************************************************************************)
LineKinds == {"text", "notext"}

RECURSIVE SeqsUpTo(_, _)
SeqsUpTo(S, n) ==
    IF n = 0 THEN {<< >>}
    ELSE LET shorter == SeqsUpTo(S, n - 1)
         IN  shorter \cup {Append(s, x) : s \in {t \in shorter : Len(t) = n - 1}, x \in S}

Bodies == SeqsUpTo(LineKinds, MaxLines)

Responses ==
    {[kind |-> "error", status |-> 0, lines |-> << >>],
     [kind |-> "http", status |-> 404, lines |-> << >>]}
    \cup {[kind |-> "http", status |-> 200, lines |-> b] : b \in Bodies}

\* What a fetch capability does: raise, return None, or return a list.
Raised == [tag |-> "raise", segs |-> << >>]
NoData == [tag |-> "none", segs |-> << >>]
Data(segs) == [tag |-> "list", segs |-> segs]

\* The loop of lines 69-81 and of lines 138-154: a line is dropped when its
\* originalText is falsy (lines 73-74; its renderer or content is missing,
\* lines 140 and 147), and kept otherwise, with the text it has, which is
\* '' for an "emptytext" line (line 75: original_text.get('text', '')).
RECURSIVE KeepText(_)
KeepText(lines) ==
    IF lines = << >> THEN << >>
    ELSE IF Head(lines) # "notext"
         THEN <<Head(lines)>> \o KeepText(Tail(lines))
         ELSE KeepText(Tail(lines))

\* fetch_vt_transcript (lines 51-82).
fetch_vt_transcript(resp) ==
    IF resp.kind = "error" THEN Raised
    ELSE IF resp.status # 200 THEN NoData
    ELSE IF resp.lines = << >> THEN NoData
    ELSE LET transcript == KeepText(resp.lines)
         IN  IF transcript # << >> THEN Data(transcript) ELSE NoData

\* parse_segments (lines 136-155).
parse_segments(initial_segments) == KeepText(initial_segments)

\* fetch_yt_transcript (lines 158-195).
fetch_yt_transcript(resp) ==
    IF resp.kind = "error" THEN Raised
    ELSE IF resp.status # 200 THEN NoData
    ELSE IF resp.lines = << >> THEN NoData
    ELSE Data(parse_segments(resp.lines))

fetch_fn(p, resp) ==
    IF p = VT THEN fetch_vt_transcript(resp) ELSE fetch_yt_transcript(resp)


(***************************************************************************)
(* The row lists the model is run on: every list of NumRows rows, up to    *)
(* renaming (the first row id used is "r1", the next new one "r2", ...;    *)
(* likewise for the non-empty provider identifiers).                       *)
(***************************************************************************)
Order(name) ==
    CASE name = "" -> 0
      [] name \in {"r1", "v1", "y1"} -> 1
      [] name \in {"r2", "v2", "y2"} -> 2
      [] OTHER -> 3

\* names[k] is empty or at most one step beyond the names used before position k.
Canonical(names) ==
    \A k \in DOMAIN names :
        \/ Order(names[k]) <= 1
        \/ \E j \in 1..(k - 1) : Order(names[j]) = Order(names[k]) - 1

RowLists ==
    {r \in [1..NumRows -> [id : RowIds, vtid : VtIds, ytid : YtIds]] :
        /\ Canonical([k \in 1..NumRows |-> r[k].id])
        /\ Canonical([k \in 1..NumRows |-> r[k].vtid])
        /\ Canonical([k \in 1..NumRows |-> r[k].ytid])}

(***************************************************************************)
(* State.                                                                  *)
(***************************************************************************)
VARIABLES
    rows,        \* the rows of CSV_FILE (line 276), fixed
    csv_exists,  \* os.path.exists(CSV_FILE) (line 270), fixed
    MAX_PER_SESSION,  \* the session cap (line 14), fixed
    disk,        \* PROGRESS_FILE: [state: missing | corrupt | valid, map]
    files,       \* files[p]: names of the transcripts written to p's directory
    now,         \* time.time(), as a clock that saturates at MaxTime
    pc,          \* where the process is; "idle" when no process runs
    progress,    \* main's dict `progress`
    i,           \* main's position in rows (1-based)
    processed,   \* main's session counter
    entry,       \* process_video's parameter `entry`
    vt_status,   \* process_video's local
    yt_status,   \* process_video's local
    attempt,     \* download_with_retry's loop variable
    tr,          \* history: tr[p] = what download_with_retry did for p in the
                 \* current call of process_video: "raise", "none", "data"
                 \* for a call of fetch_fn, "sleep" for time.sleep
    ret,         \* history: ret[p] = what download_with_retry returned for p
                 \* in the current call of process_video, "unset" if nothing yet
    pending,     \* history: indices of the rows not done when this run loaded
    handled,     \* history: indices of the rows processed and saved in this run
    prev,        \* history: the rows the previous run handled and the rows it
                 \* left not done, if it ended at the session limit with every
                 \* handled row done; NoPrev otherwise
    exit,        \* history: how the last run ended
    committed,   \* history: the mapping of the last completed save_progress
    faults,      \* whether the environment may kill the process or fail a write
                 \* to a transcript file; fixed
    http,        \* history: http[p] = status code of the response the last step
                 \* received for p, 0 if it received none
    wrote,       \* history: wrote[p] = <<segs>> if the last step wrote the
                 \* list segs to p's directory
    noted,       \* history: the tracked slots that got a response other than
                 \* 200 in the current call of process_video
    denied,      \* history: the tracked slots <<row index, provider>> that ended
                 \* NO_SUBTITLE on a response other than 200 and were saved
    probe        \* the argument and result of a function applied on its own

program == <<rows, csv_exists, MAX_PER_SESSION, disk, files, now, pc, progress, i,
             processed, entry, vt_status, yt_status, attempt, tr, ret, pending,
             handled, prev, exit, committed, faults, http, wrote, noted, denied>>

vars == <<program, probe>>

fixed == <<rows, csv_exists, MAX_PER_SESSION, faults, probe>>
durable == <<fixed, disk, files>>
locals == <<entry, vt_status, yt_status, attempt>>

NoTrace == [p \in Providers |-> << >>]
NoReturn == [p \in Providers |-> "unset"]
\* The slots <<row index, provider>> whose outcomes on a response other than
\* 200 are remembered from run to run.
Tracked == {<<1, VT>>}

NoHttp == [p \in Providers |-> 0]
NoWrite == [p \in Providers |-> << >>]
NoPrev == [handled |-> << >>, rest |-> {}]
NoProbe == [op |-> "none"]

Missing == [state |-> "missing", map |-> EmptyDict]
Corrupt == [state |-> "corrupt", map |-> EmptyDict]
\* A file whose bytes are not valid UTF-8: a write cut inside the encoding of
\* a non-ASCII character of a row id or provider identifier.
Garbled == [state |-> "garbled", map |-> EmptyDict]
\* A variant of the file written by json.dump that holds an empty mapping.
Valid_empty(m) == [state |-> "valid", map |-> EmptyDict]

Valid(m) == [state |-> "valid", map |-> m]

\* Before the first run: no checkpoint file, no transcript, no process.
Boot ==
    /\ disk = Missing
    /\ files = [p \in Providers |-> {}]
    /\ now = 1
    /\ pc = "idle"
    /\ progress = EmptyDict
    /\ i = 1
    /\ processed = 0
    /\ entry = EmptyDict
    /\ vt_status = STATUS_FAILED
    /\ yt_status = STATUS_FAILED
    /\ attempt = 1
    /\ tr = NoTrace
    /\ ret = NoReturn
    /\ pending = {}
    /\ handled = << >>
    /\ prev = NoPrev
    /\ exit = "none"
    /\ committed = EmptyDict
    /\ http = NoHttp
    /\ wrote = NoWrite
    /\ noted = {}
    /\ denied = {}

Init ==
    /\ rows \in RowLists
    /\ csv_exists \in BOOLEAN
    /\ MAX_PER_SESSION \in SessionCaps
    /\ faults = TRUE
    /\ Boot
    /\ probe = NoProbe


(***************************************************************************)
(* Checkpoint store.                                                       *)
(***************************************************************************)
\* load_progress (lines 29-36): the stored mapping, or {} when the file is
\* missing or json.load raises JSONDecodeError.
load_progress(d) == IF d.state = "valid" THEN d.map ELSE EmptyDict

\* lines 31-35: reading the file decodes it as UTF-8, and the only handler is
\* `except json.JSONDecodeError`; UnicodeDecodeError is not one, so it leaves
\* load_progress and main.
load_progress_raises(d) == d.state = "garbled"

(***************************************************************************)
(* main (lines 266-305).                                                   *)
(***************************************************************************)
row_id == rows[i].id
IdOf(p) == IF p = VT THEN rows[i].vtid ELSE rows[i].ytid

\* line 291
existing == Get(progress, row_id, EmptyDict)

\* A variant with the comparison off by one: one row too many is processed.
SessionFull_off_by_one(n) == n > MAX_PER_SESSION

\* line 283
SessionFull(n) == n >= MAX_PER_SESSION

\* A variant without the skip: every row is processed again.
ShouldSkip_never(e) == FALSE

\* line 294: `existing and is_done(existing)`; an empty dict is falsy.
ShouldSkip(e) == DOMAIN e # {} /\ is_done(e)

\* What is left of a process that has ended: nothing but the files.
Forget ==
    /\ progress' = EmptyDict
    /\ i' = 1
    /\ processed' = 0
    /\ entry' = EmptyDict
    /\ vt_status' = STATUS_FAILED
    /\ yt_status' = STATUS_FAILED
    /\ attempt' = 1
    /\ tr' = NoTrace
    /\ ret' = NoReturn
    /\ http' = NoHttp
    /\ wrote' = NoWrite

\* main returns (line 272 or line 305) or dies with an exception.
Finish(how) ==
    /\ pc' = "idle"
    /\ exit' = how
    /\ Forget

\* The rows whose entry in the mapping m is not done.
NotDone(m) == {k \in 1..Len(rows) : ~is_done(Get(m, rows[k].id, EmptyDict))}

Range(seq) == {seq[k] : k \in 1..Len(seq)}

\* Every row this run handled is now done on disk.
Clean == \A k \in 1..Len(handled) : is_done(Get(disk.map, rows[handled[k]].id, EmptyDict))

\* lines 267-281: a new process starts.
StartRun ==
    /\ pc = "idle"
    /\ prev' = IF exit = "limit" /\ Clean
               THEN [handled |-> handled, rest |-> pending \ Range(handled)]
               ELSE NoPrev
    /\ pending' = NotDone(load_progress(disk))
    /\ handled' = << >>
    /\ IF load_progress_raises(disk)
       THEN Finish("load_error")
       ELSE IF csv_exists
       THEN /\ progress' = load_progress(disk)
            /\ i' = 1
            /\ processed' = 0
            /\ pc' = "loop"
            /\ exit' = "running"
            /\ UNCHANGED <<locals, tr, ret, http, wrote>>
       ELSE Finish("nocsv")
    /\ UNCHANGED <<durable, now, committed, denied, noted>>

\* line 282 with no row left, line 305.
LoopExhausted ==
    /\ pc = "loop"
    /\ i > Len(rows)
    /\ Finish("exhausted")
    /\ UNCHANGED <<durable, now, pending, handled, prev, committed, denied, noted>>

\* lines 283-285, line 305.
LoopLimit ==
    /\ pc = "loop"
    /\ i <= Len(rows)
    /\ SessionFull(processed)
    /\ Finish("limit")
    /\ UNCHANGED <<durable, now, pending, handled, prev, committed, denied, noted>>

\* lines 287-295.
SkipRow ==
    /\ pc = "loop"
    /\ i <= Len(rows)
    /\ ~SessionFull(processed)
    /\ ShouldSkip(existing)
    /\ i' = i + 1
    /\ UNCHANGED <<durable, now, pc, progress, processed, locals, tr, ret, http, wrote,
                   pending, handled, prev, exit, committed, denied, noted>>

\* lines 287-299 and 228-229: process_video is entered.
EnterProcess ==
    /\ pc = "loop"
    /\ i <= Len(rows)
    /\ ~SessionFull(processed)
    /\ ~ShouldSkip(existing)
    /\ entry' = existing
    /\ vt_status' = Get(existing, "vt_status", STATUS_FAILED)
    /\ yt_status' = Get(existing, "yt_status", STATUS_FAILED)
    /\ pc' = "vt"
    /\ noted' = {}
    /\ UNCHANGED <<durable, now, progress, i, processed, attempt, tr, ret, http, wrote,
                   pending, handled, prev, exit, committed, denied>>

(***************************************************************************)
(* process_video (lines 226-263) and download_with_retry (lines 198-223).  *)
(* The VoiceTube block (lines 232-242) and the YouTube block (lines        *)
(* 245-255) are the same code on vtid/vt_status and on ytid/yt_status.     *)
(***************************************************************************)
AtBlock(p) == IF p = VT THEN "vt" ELSE "yt"
AtTry(p) == IF p = VT THEN "vt_try" ELSE "yt_try"
AtSleep(p) == IF p = VT THEN "vt_sleep" ELSE "yt_sleep"
AfterBlock(p) == IF p = VT THEN "yt" ELSE "ret"

StatusOf(p) == IF p = VT THEN vt_status ELSE yt_status

SetStatus(p, s) ==
    IF p = VT
    THEN vt_status' = s /\ UNCHANGED yt_status
    ELSE yt_status' = s /\ UNCHANGED vt_status

\* A variant that fetches again whatever the persisted status is.
NeedsFetch_ignoring_status(id, status) == id # ""

\* A variant without the test of the identifier.
NeedsFetch_ignoring_id(id, status) == status \notin {STATUS_OK, STATUS_NO_SUBTITLE}

\* A variant in which the YouTube block is skipped after a VoiceTube failure.
NeedsFetch_unless_vt_failed(id, status) ==
    /\ id # ""
    /\ status \notin {STATUS_OK, STATUS_NO_SUBTITLE}
    /\ ~(pc = "yt" /\ vt_status = STATUS_FAILED)

\* A variant that fetches again a slot recorded as NO_SUBTITLE.
NeedsFetch_retrying_no_subtitle(id, status) == id # "" /\ status # STATUS_OK

\* lines 232 and 245: `id and status not in (STATUS_OK, STATUS_NO_SUBTITLE)`.
NeedsFetch(id, status) == id # "" /\ status \notin {STATUS_OK, STATUS_NO_SUBTITLE}

\* A variant with the comparison off by one: a fourth attempt is made.
MoreAttempts_off_by_one(a) == a <= MAX_RETRIES

\* line 219, and the end of range(1, MAX_RETRIES + 1).
MoreAttempts(a) == a < MAX_RETRIES

\* lines 232, 241-242 (245, 254-255): fetch, or set NO_SUBTITLE, or leave as is.
BlockBegin(p) ==
    /\ pc = AtBlock(p)
    /\ IF NeedsFetch(IdOf(p), StatusOf(p))
       THEN /\ pc' = AtTry(p)
            /\ attempt' = 1
            /\ UNCHANGED <<vt_status, yt_status>>
       ELSE /\ pc' = AfterBlock(p)
            /\ IF IdOf(p) = ""
               THEN SetStatus(p, STATUS_NO_SUBTITLE)
               ELSE UNCHANGED <<vt_status, yt_status>>
            /\ UNCHANGED attempt
    /\ http' = NoHttp
    /\ wrote' = NoWrite
    /\ UNCHANGED <<durable, now, progress, i, processed, entry, tr, ret,
                   pending, handled, prev, exit, committed, denied, noted>>

\* A variant that treats None like an exception and retries it.
retry_step_retrying_none(tag, a) ==
    CASE tag = "list" -> "data"
      [] OTHER -> IF a < MAX_RETRIES THEN "sleep" ELSE STATUS_FAILED

\* What download_with_retry does after a call of fetch_fn in attempt a
\* (lines 208-223): return NO_SUBTITLE on None, return the data on a list;
\* on an exception sleep and go round again, or, after the last attempt,
\* fall out of the loop and return FAILED.
retry_step(tag, a) ==
    CASE tag = "none" -> STATUS_NO_SUBTITLE
      [] tag = "list" -> "data"
      [] OTHER -> IF MoreAttempts(a) THEN "sleep" ELSE STATUS_FAILED

Event(tag) == IF tag = "list" THEN "data" ELSE tag

\* Whether a write to a transcript file succeeds.
WriteOutcomes == IF faults THEN BOOLEAN ELSE {TRUE}

\* lines 210-223 and 234-240 (247-253): one call of fetch_fn and what follows
\* it up to the sleep or to the end of the block.  A list is written to the
\* provider's directory, which can raise (OSError, UnicodeEncodeError): no
\* handler encloses lines 235-236 (248-249), so main dies with the exception.
Attempt(p) ==
    /\ pc = AtTry(p)
    /\ \E resp \in Responses :
         LET data == fetch_fn(p, resp)
             step == retry_step(data.tag, attempt)
         IN  CASE step = "sleep" ->
                    /\ tr' = [tr EXCEPT ![p] = Append(@, Event(data.tag))]
                    /\ http' = [http EXCEPT ![p] = resp.status]
                    /\ pc' = AtSleep(p)
                    /\ UNCHANGED <<files, progress, i, processed, entry, vt_status,
                                   yt_status, attempt, ret, wrote, exit, noted>>
               [] step = "data" ->
                    \E written \in WriteOutcomes :
                      IF written
                      THEN /\ tr' = [tr EXCEPT ![p] = Append(@, Event(data.tag))]
                           /\ ret' = [ret EXCEPT ![p] = step]
                           /\ http' = [http EXCEPT ![p] = resp.status]
                           /\ files' = [files EXCEPT ![p] = @ \cup {IdOf(p)}]
                           /\ wrote' = [wrote EXCEPT ![p] = <<data.segs>>]
                           /\ SetStatus(p, STATUS_OK)
                           /\ pc' = AfterBlock(p)
                           /\ UNCHANGED <<progress, i, processed, entry, attempt, exit,
                                          noted>>
                      ELSE /\ Finish("exception")
                           /\ noted' = {}
                           /\ UNCHANGED files
               [] OTHER ->
                    /\ tr' = [tr EXCEPT ![p] = Append(@, Event(data.tag))]
                    /\ ret' = [ret EXCEPT ![p] = step]
                    /\ http' = [http EXCEPT ![p] = resp.status]
                    /\ noted' = IF resp.status \notin {0, 200}
                                THEN noted \cup ({<<i, p>>} \cap Tracked)
                                ELSE noted
                    /\ SetStatus(p, step)
                    /\ pc' = AfterBlock(p)
                    /\ UNCHANGED <<files, progress, i, processed, entry, attempt, wrote,
                                   exit>>
    /\ UNCHANGED <<fixed, disk, now, pending, handled,
                   prev, committed, denied>>

\* line 220 and the next iteration of line 208.
Sleep(p) ==
    /\ pc = AtSleep(p)
    /\ tr' = [tr EXCEPT ![p] = Append(@, "sleep")]
    /\ http' = NoHttp
    /\ attempt' = attempt + 1
    /\ pc' = AtTry(p)
    /\ UNCHANGED <<durable, now, progress, i, processed, entry, vt_status,
                   yt_status, ret, wrote, pending, handled, prev, exit, committed,
                   denied, noted>>

\* lines 257-263 and the assignment of line 299.
ReturnEntry ==
    /\ pc = "ret"
    /\ progress' = Put(progress, row_id,
                       [vtid |-> rows[i].vtid, ytid |-> rows[i].ytid,
                        vt_status |-> vt_status, yt_status |-> yt_status,
                        timestamp |-> now])
    /\ now' = Min(now + 1, MaxTime)
    /\ pc' = "save"
    /\ tr' = NoTrace
    /\ ret' = NoReturn
    /\ http' = NoHttp
    /\ wrote' = NoWrite
    /\ UNCHANGED <<durable, i, processed, locals,
                   pending, handled, prev, exit, committed, denied, noted>>

(***************************************************************************)
(* save_progress (lines 39-41): open(..., 'w') truncates the file, then    *)
(* json.dump writes the mapping into it.                                   *)
(***************************************************************************)
SaveOpen ==
    /\ pc = "save"
    /\ disk' = Corrupt
    /\ pc' = "dump"
    /\ UNCHANGED <<fixed, files, now, progress, i, processed, locals,
                   tr, ret, http, wrote, pending, handled, prev, exit, committed,
                   denied, noted>>

\* line 41, then lines 302-303 and back to line 282.
SaveDump ==
    /\ pc = "dump"
    /\ disk' = Valid(progress)
    /\ committed' = progress
    /\ processed' = processed + 1
    /\ handled' = Append(handled, i)
    /\ i' = i + 1
    /\ pc' = "loop"
    /\ entry' = EmptyDict
    /\ vt_status' = STATUS_FAILED
    /\ yt_status' = STATUS_FAILED
    /\ attempt' = 1
    /\ denied' = denied \cup noted
    /\ noted' = {}
    /\ UNCHANGED <<fixed, files, now, progress, tr, ret, http, wrote,
                   pending, prev, exit>>

\* The process is killed (SIGKILL, power loss): memory is lost, files stay.
\* Killed inside json.dump of save_progress, the file holds a prefix of the
\* bytes: unparseable JSON text, or text cut inside a multibyte character.
Crash ==
    /\ faults
    /\ pc # "idle"
    /\ Finish("crash")
    /\ IF pc = "dump" THEN disk' \in {Corrupt, Garbled} ELSE UNCHANGED disk
    /\ noted' = {}
    /\ UNCHANGED <<fixed, files, now, pending, handled, prev, committed, denied>>

Next ==
    \/ StartRun
    \/ LoopExhausted
    \/ LoopLimit
    \/ SkipRow
    \/ EnterProcess
    \/ \E p \in Providers : BlockBegin(p)
    \/ \E p \in Providers : Attempt(p)
    \/ \E p \in Providers : Sleep(p)
    \/ ReturnEntry
    \/ SaveOpen
    \/ SaveDump
    \/ Crash

Spec == Init /\ [][Next]_vars

(***************************************************************************)
(* Repeated runs in a benign environment: the row source exists, no        *)
(* process is killed and no file write fails; the HTTP responses stay      *)
(* arbitrary.  Every process runs to its end and a new run is started      *)
(* again and again.                                                        *)
(***************************************************************************)
Init_fair ==
    /\ rows \in RowLists
    /\ csv_exists = TRUE
    /\ MAX_PER_SESSION \in SessionCaps
    /\ faults = FALSE
    /\ Boot
    /\ probe = NoProbe

Next_fair ==
    \/ StartRun
    \/ LoopExhausted
    \/ LoopLimit
    \/ SkipRow
    \/ EnterProcess
    \/ \E p \in Providers : BlockBegin(p)
    \/ \E p \in Providers : Attempt(p)
    \/ \E p \in Providers : Sleep(p)
    \/ ReturnEntry
    \/ SaveOpen
    \/ SaveDump

Spec_fair == Init_fair /\ [][Next_fair]_vars /\ WF_vars(Next_fair)


(***************************************************************************)
(* is_done on its own: applied once to an arbitrary entry, which may lack  *)
(* either status key (an entry written by hand or by another version) or   *)
(* hold a value that is none of the three statuses.                        *)
(***************************************************************************)
Absent == "absent"
StatusInputs == Statuses \cup {"other", Absent}

MakeEntry(vt, yt, vtid) ==
    LET dom == (IF vt # Absent THEN {"vt_status"} ELSE {})
               \cup (IF yt # Absent THEN {"yt_status"} ELSE {})
               \cup (IF vtid # Absent THEN {"vtid", "ytid", "timestamp"} ELSE {})
    IN  [k \in dom |->
           CASE k = "vt_status" -> vt
             [] k = "yt_status" -> yt
             [] k = "vtid" -> vtid
             [] k = "ytid" -> "y1"
             [] OTHER -> 1]

EntryInputs ==
    {MakeEntry(vt, yt, vtid) : vt \in StatusInputs, yt \in StatusInputs,
                               vtid \in {Absent, "", "v1"}}

Init_is_done ==
    /\ rows = << >>
    /\ csv_exists = FALSE
    /\ MAX_PER_SESSION = 1
    /\ faults = FALSE
    /\ Boot
    /\ probe \in {[op |-> "is_done", arg |-> e, applied |-> FALSE, result |-> FALSE] :
                    e \in EntryInputs}

Apply_is_done ==
    /\ probe.op = "is_done"
    /\ ~probe.applied
    /\ probe' = [probe EXCEPT !.applied = TRUE, !.result = is_done(probe.arg)]
    /\ UNCHANGED program

Spec_is_done == Init_is_done /\ [][Apply_is_done]_vars

(***************************************************************************)
(* The two adapters on their own, applied once to an arbitrary response.   *)
(* Besides "text" and "notext" a caption line can be "emptytext": its      *)
(* originalText is a non-empty object whose text is missing or '' (for     *)
(* provider B: its content is '').  A response with another status than    *)
(* 200 can carry any body.                                                 *)
(***************************************************************************)
ProbeLineKinds == LineKinds \cup {"emptytext"}
ProbeBodies == SeqsUpTo(ProbeLineKinds, MaxLines)
StatusCodes == {200, 404, 500}

ProbeResponses ==
    {[kind |-> "error", status |-> 0, lines |-> << >>]}
    \cup {[kind |-> "http", status |-> c, lines |-> b] : c \in StatusCodes, b \in ProbeBodies}

Init_fetch ==
    /\ rows = << >>
    /\ csv_exists = FALSE
    /\ MAX_PER_SESSION = 1
    /\ faults = FALSE
    /\ Boot
    /\ probe \in {[op |-> "fetch_fn", arg |-> <<p, resp>>, applied |-> FALSE,
                    result |-> Raised] : p \in Providers, resp \in ProbeResponses}

Apply_fetch_fn ==
    /\ probe.op = "fetch_fn"
    /\ ~probe.applied
    /\ probe' = [probe EXCEPT !.applied = TRUE,
                              !.result = fetch_fn(probe.arg[1], probe.arg[2])]
    /\ UNCHANGED program

Spec_fetch == Init_fetch /\ [][Apply_fetch_fn]_vars

(***************************************************************************)
(* The protobuf builders (lines 85-105) on their own.  A string is the     *)
(* sequence of its code points, a bytearray the sequence of its bytes.     *)
(* bytearray.append(n) and bytearray([.., n]) raise ValueError unless      *)
(* 0 <= n <= 255.                                                          *)
(***************************************************************************)
MaxStr == 3       \* longest string enumerated character by character
ByteMax == 255

\* '-', 'e', 'n' and U+00E9, whose UTF-8 encoding takes two bytes.
CodePoints == {45, 101, 110, 233}

\* str.encode('utf-8') of one code point below U+0800.
utf8_char(c) == IF c < 128 THEN <<c>> ELSE <<192 + (c \div 64), 128 + (c % 64)>>

\* str.encode('utf-8'): the encodings of the characters, in order (the string
\* is split in halves to keep the evaluation shallow).
RECURSIVE encode_utf8(_)
encode_utf8(str) ==
    IF str = << >> THEN << >>
    ELSE IF Len(str) = 1 THEN utf8_char(str[1])
    ELSE LET half == Len(str) \div 2
         IN  encode_utf8(SubSeq(str, 1, half)) \o encode_utf8(SubSeq(str, half + 1, Len(str)))

Bytes(b) == [tag |-> "bytes", bytes |-> b]
ValueError == [tag |-> "raise", bytes |-> << >>]

\* A variant that writes the number of characters where the number of bytes belongs.
create_lang_protobuf_char_count(lang_code) ==
    LET lang_bytes == encode_utf8(lang_code)
    IN  IF Len(lang_code) > ByteMax THEN ValueError
        ELSE Bytes(<<10, 3>> \o <<97, 115, 114>> \o <<18>> \o <<Len(lang_code)>>
                   \o lang_bytes \o <<26, 0>>)

\* create_lang_protobuf (lines 85-93).
create_lang_protobuf(lang_code) ==
    LET lang_bytes == encode_utf8(lang_code)
    IN  IF Len(lang_bytes) > ByteMax THEN ValueError
        ELSE Bytes(<<10, 3>> \o <<97, 115, 114>> \o <<18>> \o <<Len(lang_bytes)>>
                   \o lang_bytes \o <<26, 0>>)

\* A variant with the two fields in the other order.
create_params_protobuf_swapped(video_id, url_encoded_lang) ==
    LET vid_bytes == encode_utf8(video_id)
        lang_bytes == encode_utf8(url_encoded_lang)
    IN  IF Len(vid_bytes) > ByteMax \/ Len(lang_bytes) > ByteMax THEN ValueError
        ELSE Bytes(<<10, Len(lang_bytes)>> \o lang_bytes \o <<18>> \o <<Len(vid_bytes)>>
                   \o vid_bytes \o <<24, 1>>)

\* create_params_protobuf (lines 96-105).
create_params_protobuf(video_id, url_encoded_lang) ==
    LET vid_bytes == encode_utf8(video_id)
        lang_bytes == encode_utf8(url_encoded_lang)
    IN  IF Len(vid_bytes) > ByteMax \/ Len(lang_bytes) > ByteMax THEN ValueError
        ELSE Bytes(<<10, Len(vid_bytes)>> \o vid_bytes \o <<18>> \o <<Len(lang_bytes)>>
                   \o lang_bytes \o <<24, 1>>)

Repeat(c, n) == [k \in 1..n |-> c]

\* Every string of at most MaxStr characters, and strings of one repeated
\* character whose encodings have ByteMax - 1, ByteMax and ByteMax + 1 bytes.
Strings ==
    SeqsUpTo(CodePoints, MaxStr)
    \cup {Repeat(101, ByteMax), Repeat(101, ByteMax + 1), Repeat(233, (ByteMax - 1) \div 2),
          Repeat(233, (ByteMax + 1) \div 2)}

\* "v1" and "ABCD"
VideoIds == Strings \cup {<<118, 49>>}
EncodedLangs == Strings \cup {<<65, 66, 67, 68>>}

Init_protobuf ==
    /\ rows = << >>
    /\ csv_exists = FALSE
    /\ MAX_PER_SESSION = 1
    /\ faults = FALSE
    /\ Boot
    /\ probe \in {[op |-> "create_lang_protobuf", arg |-> <<l>>, applied |-> FALSE,
                    result |-> ValueError] : l \in Strings}
                 \cup {[op |-> "create_params_protobuf", arg |-> <<v, e>>, applied |-> FALSE,
                        result |-> ValueError] : v \in VideoIds, e \in EncodedLangs}

Apply_create_lang_protobuf ==
    /\ probe.op = "create_lang_protobuf"
    /\ ~probe.applied
    /\ probe' = [probe EXCEPT !.applied = TRUE, !.result = create_lang_protobuf(probe.arg[1])]
    /\ UNCHANGED program

Apply_create_params_protobuf ==
    /\ probe.op = "create_params_protobuf"
    /\ ~probe.applied
    /\ probe' = [probe EXCEPT !.applied = TRUE,
                              !.result = create_params_protobuf(probe.arg[1], probe.arg[2])]
    /\ UNCHANGED program

Next_protobuf == Apply_create_lang_protobuf \/ Apply_create_params_protobuf

Spec_protobuf == Init_protobuf /\ [][Next_protobuf]_vars

(***************************************************************************)
(*                              PROPERTIES                                 *)
(***************************************************************************)
Terminal == {STATUS_OK, STATUS_NO_SUBTITLE}
StatusKey(p) == IF p = VT THEN "vt_status" ELSE "yt_status"

\* The process is inside process_video for row i.
InProcess == pc \in {"vt", "vt_try", "vt_sleep", "yt", "yt_try", "yt_sleep", "ret"}

\* process_video has returned for row i and its entry is being saved.
Saving == pc \in {"save", "dump"}

(***************************************************************************)
(* C1 as stated: once the entry of a row id records OK or NO_SUBTITLE for  *)
(* a provider, no step of any run changes that recorded status.            *)
(***************************************************************************)
C1_TerminalStatusNeverChanges ==
    [][\A id \in (DOMAIN progress) \cap (DOMAIN progress') : \A p \in Providers :
          progress[id][StatusKey(p)] \in Terminal
          => progress'[id][StatusKey(p)] = progress[id][StatusKey(p)]]_vars

(***************************************************************************)
(* C1 amended: a recorded OK or NO_SUBTITLE is changed by one step only,   *)
(* the return of process_video for a row with that id whose identifier for *)
(* the provider is empty, and then it becomes NO_SUBTITLE; an absent or    *)
(* FAILED status is the only other one that changes.                       *)
(***************************************************************************)
C1_TerminalStatusChangesOnlyOnEmptyId ==
    [][\A id \in (DOMAIN progress) \cap (DOMAIN progress') : \A p \in Providers :
          progress[id][StatusKey(p)] \in Terminal
          => \/ progress'[id][StatusKey(p)] = progress[id][StatusKey(p)]
             \/ /\ pc = "ret"
                /\ id = row_id
                /\ IdOf(p) = ""
                /\ progress'[id][StatusKey(p)] = STATUS_NO_SUBTITLE]_vars

\* A row with a terminal status for a provider and a non-empty identifier
\* has been processed again, and the status was kept.
C1_Witness ==
    /\ Saving
    /\ \E p \in Providers :
         /\ IdOf(p) # ""
         /\ Get(entry, StatusKey(p), None) \in Terminal
         /\ progress[row_id][StatusKey(p)] = entry[StatusKey(p)]


(***************************************************************************)
(* download_with_retry, read off its history tr[p].                        *)
(***************************************************************************)
\* The calls of fetch_fn in a history, in order, without the sleeps.
Calls(t) == SelectSeq(t, LAMBDA e : e # "sleep")

\* The calls of fetch_fn among the first k events of a history.
CallsBefore(t, k) == Len(Calls(SubSeq(t, 1, k)))

AllRaise(c) == \A k \in 1..Len(c) : c[k] = "raise"

(***************************************************************************)
(* C2: download_with_retry calls fetch_fn at most MAX_RETRIES = 3 times.   *)
(* When every call raised, it returns after exactly 3 calls, with FAILED,  *)
(* which becomes the provider's status; when the first two calls raised    *)
(* and the third returned a list, that third call was the last and the     *)
(* status is OK.  A sleep comes only directly after a call that raised and *)
(* was not the third, and every such call is followed by a sleep before    *)
(* anything else.                                                          *)
(***************************************************************************)
C2_RetryCap ==
    \A p \in Providers :
      LET t == tr[p]
          c == Calls(t)
      IN  /\ Len(c) <= MAX_RETRIES
          /\ (ret[p] # "unset" /\ AllRaise(c))
               => Len(c) = 3 /\ ret[p] = STATUS_FAILED /\ StatusOf(p) = STATUS_FAILED
          /\ ret[p] = STATUS_FAILED => Len(c) = 3 /\ AllRaise(c)
          /\ (Len(c) >= 3 /\ c[1] = "raise" /\ c[2] = "raise" /\ c[3] = "data")
               => Len(c) = 3 /\ ret[p] = "data" /\ StatusOf(p) = STATUS_OK
          /\ \A k \in 1..Len(t) :
               /\ t[k] = "sleep"
                    => k > 1 /\ t[k - 1] = "raise" /\ CallsBefore(t, k) < MAX_RETRIES
               /\ (t[k] = "raise" /\ k < Len(t)) => t[k + 1] = "sleep"
               /\ (t[k] = "raise" /\ CallsBefore(t, k) = MAX_RETRIES) => k = Len(t)

\* Two calls raised, the third returned a list, and the status is OK.
C2_Witness ==
    \E p \in Providers :
      /\ tr[p] = <<"raise", "sleep", "raise", "sleep", "data">>
      /\ ret[p] = "data"
      /\ StatusOf(p) = STATUS_OK

(***************************************************************************)
(* C3: a call of fetch_fn that returns None is the last event of the       *)
(* executor, whichever attempt it is: no call and no sleep follows it, the *)
(* executor has returned NO_SUBTITLE and that is the provider's status.    *)
(***************************************************************************)
C3_NoDataStopsAtOnce ==
    \A p \in Providers :
      /\ \A k \in 1..Len(tr[p]) :
           tr[p][k] = "none"
             => /\ k = Len(tr[p])
                /\ ret[p] = STATUS_NO_SUBTITLE
                /\ StatusOf(p) = STATUS_NO_SUBTITLE
                /\ pc \notin {AtTry(p), AtSleep(p)}
      /\ ret[p] = STATUS_NO_SUBTITLE
           => tr[p] # << >> /\ tr[p][Len(tr[p])] = "none"

\* None came back on the third attempt, after two calls that raised.
C3_Witness ==
    \E p \in Providers :
      /\ tr[p] = <<"raise", "sleep", "raise", "sleep", "none">>
      /\ ret[p] = STATUS_NO_SUBTITLE


(***************************************************************************)
(* Runs of main, read off their history.                                   *)
(***************************************************************************)
RECURSIVE Ascending(_)
Ascending(S) ==
    IF S = {} THEN << >>
    ELSE LET least == CHOOSE x \in S : \A y \in S : x <= y
         IN  <<least>> \o Ascending(S \ {least})

\* The first n members of a set of row indices, in input order.
FirstN(S, n) == SubSeq(Ascending(S), 1, Min(n, Cardinality(S)))

\* main has returned from line 305 (rows exhausted, or session limit).
NormalExit == pc = "idle" /\ exit \in {"limit", "exhausted"}

DistinctIds == \A j, k \in 1..Len(rows) : j # k => rows[j].id # rows[k].id

\* Between two states of one process, the only entry of `progress` that
\* differs is the one process_video has just returned, for the id of row i;
\* the checkpoint file is written by save_progress only, with that mapping
\* when the write completes, and a row counts as handled exactly then.
OnlyCurrentRowWritten ==
    /\ (pc # "idle" /\ pc' # "idle")
         => \A id \in (DOMAIN progress) \cup (DOMAIN progress') :
              \/ id \in DOMAIN progress /\ id \in DOMAIN progress'
                   /\ progress'[id] = progress[id]
              \/ pc = "ret" /\ id = row_id
    /\ disk' # disk
         => /\ pc \in {"save", "dump"}
            /\ (pc = "dump" /\ pc' # "idle")
                 => disk' = Valid(progress) /\ handled' = Append(handled, i)
    /\ (handled' # handled /\ pc # "idle") => pc = "dump"

(***************************************************************************)
(* C4 as stated: a run never processes more rows than the session cap;     *)
(* with more not-done rows than the cap when it starts, a run that ends    *)
(* has processed exactly cap rows, the first cap not-done rows in input    *)
(* order, and changed no other row's entry; the run after one that ended   *)
(* at the cap without failures processes the rows that one left.           *)
(***************************************************************************)
C4_SessionCap ==
    /\ [](/\ processed <= MAX_PER_SESSION
          /\ Len(handled) <= MAX_PER_SESSION
          /\ pc # "idle" => Len(handled) = processed
          /\ NormalExit =>
               /\ Cardinality(pending) > MAX_PER_SESSION
                    => /\ Len(handled) = MAX_PER_SESSION
                       /\ handled = FirstN(pending, MAX_PER_SESSION)
               /\ prev # NoPrev => handled = FirstN(prev.rest, MAX_PER_SESSION))
    /\ [][OnlyCurrentRowWritten]_vars

(***************************************************************************)
(* C4 amended: the same, for a row list whose row ids are pairwise         *)
(* distinct (a row whose id is that of a row already done is skipped, so   *)
(* with repeated ids fewer rows are processed); that a run never processes *)
(* more rows than the cap, and writes no entry but that of the row being   *)
(* processed, holds for every row list.                                    *)
(***************************************************************************)
C4_SessionCapDistinctIds ==
    /\ [](/\ processed <= MAX_PER_SESSION
          /\ Len(handled) <= MAX_PER_SESSION
          /\ pc # "idle" => Len(handled) = processed
          /\ (NormalExit /\ DistinctIds) =>
               /\ Cardinality(pending) > MAX_PER_SESSION
                    => Len(handled) = MAX_PER_SESSION
               /\ handled = FirstN(pending, MAX_PER_SESSION)
               /\ prev # NoPrev => handled = FirstN(prev.rest, MAX_PER_SESSION))
    /\ [][OnlyCurrentRowWritten]_vars

\* With distinct ids: a run ended at the cap with every handled row done and
\* left rows not done, and the next run processed the rows it left.
C4_Witness ==
    /\ NormalExit
    /\ DistinctIds
    /\ prev # NoPrev
    /\ Len(prev.handled) = MAX_PER_SESSION
    /\ prev.rest # {}
    /\ Range(handled) = prev.rest

(***************************************************************************)
(* C5: a row whose entry is done is skipped: the only step main takes on   *)
(* it moves to the next row and leaves the session counter, the mapping,   *)
(* the checkpoint file, the transcript files and the call history as they  *)
(* are.  process_video, and so every network call, runs on an entry that   *)
(* is not done.  A run that loads a checkpoint in which every row is done  *)
(* never leaves the loop head, changes nothing on disk and ends having     *)
(* handled no row.                                                         *)
(***************************************************************************)
AllDone == pending = {}

C5_DoneRowsAreSkipped ==
    /\ []((InProcess \/ Saving) => ~is_done(entry))
    /\ [](\A p \in Providers : tr[p] # << >> => ~is_done(entry))
    /\ []((exit = "running" /\ AllDone)
            => pc = "loop" /\ processed = 0 /\ handled = << >> /\ disk = Valid(progress))
    /\ []((NormalExit /\ AllDone) => exit = "exhausted" /\ handled = << >>)
    /\ [][(pc = "loop" /\ i <= Len(rows) /\ is_done(existing) /\ pc' # "idle")
            => /\ pc' = "loop"
               /\ i' = i + 1
               /\ UNCHANGED <<processed, progress, disk, files, tr, ret, handled>>]_vars
    /\ [][(exit = "running" /\ AllDone)
            => UNCHANGED <<disk, files, tr>> /\ (pc' # "idle" => progress' = progress)]_vars

\* A run over an input in which every row was done has ended.
C5_Witness ==
    /\ NormalExit
    /\ AllDone
    /\ disk.state = "valid"
    /\ \A k \in 1..Len(rows) : rows[k].id \in DOMAIN disk.map


(***************************************************************************)
(* C6: is_done(entry) is true exactly when the entry holds vt_status in    *)
(* {OK, NO_SUBTITLE} and yt_status in {OK, NO_SUBTITLE}; an entry in which *)
(* either status is missing or FAILED is not done.                         *)
(***************************************************************************)
HasTerminal(e, key) == key \in DOMAIN e /\ e[key] \in {STATUS_OK, STATUS_NO_SUBTITLE}
MissingOrFailed(e, key) == key \notin DOMAIN e \/ e[key] = STATUS_FAILED

C6_DoneIffBothTerminal ==
    (probe.op = "is_done" /\ probe.applied)
      => /\ probe.result
              <=> (HasTerminal(probe.arg, "vt_status") /\ HasTerminal(probe.arg, "yt_status"))
         /\ (MissingOrFailed(probe.arg, "vt_status") \/ MissingOrFailed(probe.arg, "yt_status"))
              => ~probe.result

\* is_done has answered False for an entry whose VoiceTube status is OK and
\* whose YouTube status is missing.
C6_Witness ==
    /\ probe.op = "is_done"
    /\ probe.applied
    /\ HasTerminal(probe.arg, "vt_status")
    /\ "yt_status" \notin DOMAIN probe.arg
    /\ ~probe.result

(***************************************************************************)
(* process_video, read off its locals and its history.                     *)
(***************************************************************************)
\* The block of provider p is over and process_video has not returned yet.
BlockDone(p) == IF p = VT THEN pc \in {"yt", "yt_try", "yt_sleep", "ret"} ELSE pc = "ret"

\* The status persisted for p when process_video was entered (lines 228-229).
Persisted(p) == Get(entry, StatusKey(p), STATUS_FAILED)

(***************************************************************************)
(* C7: for a row whose identifier for a provider is empty, process_video   *)
(* makes no fetch attempt for that provider, and the provider's status at  *)
(* the end of its block, and in the entry returned, is NO_SUBTITLE,        *)
(* whatever the persisted status was.                                      *)
(***************************************************************************)
C7_EmptyIdIsNoSubtitle ==
    \A p \in Providers :
      /\ (InProcess /\ IdOf(p) = "")
           => /\ tr[p] = << >>
              /\ ret[p] = "unset"
              /\ pc \notin {AtTry(p), AtSleep(p)}
      /\ (BlockDone(p) /\ IdOf(p) = "") => StatusOf(p) = STATUS_NO_SUBTITLE
      /\ (Saving /\ IdOf(p) = "") => progress[row_id][StatusKey(p)] = STATUS_NO_SUBTITLE

\* An entry that recorded OK for a provider came back with NO_SUBTITLE from
\* a row whose identifier for that provider is empty.
C7_Witness ==
    /\ Saving
    /\ \E p \in Providers :
         /\ IdOf(p) = ""
         /\ Get(entry, StatusKey(p), None) = STATUS_OK
         /\ progress[row_id][StatusKey(p)] = STATUS_NO_SUBTITLE

(***************************************************************************)
(* C8: at the end of a provider's block, and until process_video returns,  *)
(* the provider's status is a function of its own identifier, its own      *)
(* persisted status and its own fetch outcomes, and it was attempted       *)
(* exactly when its identifier is non-empty and its persisted status is    *)
(* absent or FAILED; the other provider's outcome plays no part.  The      *)
(* entry returned holds these two statuses.                                *)
(***************************************************************************)
LastEvent(t) == t[Len(t)]

OwnOutcome(p) ==
    IF IdOf(p) = "" THEN STATUS_NO_SUBTITLE
    ELSE IF Persisted(p) \in Terminal THEN Persisted(p)
    ELSE IF tr[p] = << >> THEN "nothing"
    ELSE CASE LastEvent(tr[p]) = "data" -> STATUS_OK
           [] LastEvent(tr[p]) = "none" -> STATUS_NO_SUBTITLE
           [] OTHER -> STATUS_FAILED

C8_ProvidersIndependent ==
    /\ \A p \in Providers :
         BlockDone(p)
           => /\ StatusOf(p) = OwnOutcome(p)
              /\ tr[p] # << >> <=> (IdOf(p) # "" /\ Persisted(p) \notin Terminal)
    /\ Saving
         => /\ progress[row_id].vt_status = vt_status
            /\ progress[row_id].yt_status = yt_status

\* Provider A ended FAILED after three attempts, and provider B was still
\* attempted and ended OK.
C8_Witness ==
    /\ pc = "ret"
    /\ ret[VT] = STATUS_FAILED
    /\ vt_status = STATUS_FAILED
    /\ tr[YT] # << >>
    /\ yt_status = STATUS_OK

(***************************************************************************)
(* C9 as stated: whatever happened to the previous process, the mapping a  *)
(* run loads holds, as they were saved, the entries of every save_progress *)
(* call that completed before.                                             *)
(***************************************************************************)
C9_CrashKeepsCompletedSaves ==
    (pc = "loop" /\ exit = "running" /\ processed = 0)
      => \A id \in DOMAIN committed :
           id \in DOMAIN progress /\ progress[id] = committed[id]

(***************************************************************************)
(* C10 as stated: a run whose row source exists ends only because the rows *)
(* are exhausted or the session limit is reached (or the process is        *)
(* killed), never with an exception raised while handling an item.         *)
(***************************************************************************)
C10_NoAbortOnItemError ==
    (pc = "idle" /\ exit \notin {"none", "nocsv", "crash", "load_error"})
      => exit \in {"limit", "exhausted"}


(***************************************************************************)
(* C11 as stated: load_progress never raises; a run that has just loaded   *)
(* holds the stored mapping when the file is a valid serialization and the *)
(* empty mapping when the file is missing or corrupt.                      *)
(***************************************************************************)
C11_LoadNeverRaises ==
    /\ exit # "load_error"
    /\ (pc = "loop" /\ i = 1)
         => progress = (IF disk.state = "valid" THEN disk.map ELSE EmptyDict)


(***************************************************************************)
(* C12: for every language code L whose UTF-8 encoding has at most 255     *)
(* bytes, create_lang_protobuf(L) is 0A 03 61 73 72 12 len(L) L-bytes      *)
(* 1A 00, of length len(L) + 9; for "en" it is the eleven bytes            *)
(* 0A 03 61 73 72 12 02 65 6E 1A 00.                                       *)
(***************************************************************************)
C12_LangProtobufLayout ==
    (probe.op = "create_lang_protobuf" /\ probe.applied)
      => LET L == encode_utf8(probe.arg[1])
             n == Len(L)
             b == probe.result.bytes
         IN  /\ n <= 255
                  => /\ probe.result.tag = "bytes"
                     /\ Len(b) = n + 9
                     /\ SubSeq(b, 1, 6) = <<10, 3, 97, 115, 114, 18>>
                     /\ b[7] = n
                     /\ SubSeq(b, 8, 7 + n) = L
                     /\ SubSeq(b, 8 + n, 9 + n) = <<26, 0>>
             /\ probe.arg[1] = <<101, 110>>
                  => b = <<10, 3, 97, 115, 114, 18, 2, 101, 110, 26, 0>>

\* create_lang_protobuf has been applied to a code with a two-byte character.
C12_Witness ==
    /\ probe.op = "create_lang_protobuf"
    /\ probe.applied
    /\ probe.arg[1] = <<101, 233>>
    /\ probe.result.bytes = <<10, 3, 97, 115, 114, 18, 3, 101, 195, 169, 26, 0>>

(***************************************************************************)
(* C13: for every video id V and encoded language E whose UTF-8 encodings  *)
(* have at most 255 bytes each, create_params_protobuf(V, E) is            *)
(* 0A len(V) V-bytes 12 len(E) E-bytes 18 01; for "v1" and "ABCD" it is    *)
(* 0A 02 76 31 12 04 41 42 43 44 18 01.                                    *)
(***************************************************************************)
C13_ParamsProtobufLayout ==
    (probe.op = "create_params_protobuf" /\ probe.applied)
      => LET V == encode_utf8(probe.arg[1])
             E == encode_utf8(probe.arg[2])
             nv == Len(V)
             ne == Len(E)
             b == probe.result.bytes
         IN  /\ (nv <= 255 /\ ne <= 255)
                  => /\ probe.result.tag = "bytes"
                     /\ Len(b) = nv + ne + 6
                     /\ b[1] = 10
                     /\ b[2] = nv
                     /\ SubSeq(b, 3, 2 + nv) = V
                     /\ b[3 + nv] = 18
                     /\ b[4 + nv] = ne
                     /\ SubSeq(b, 5 + nv, 4 + nv + ne) = E
                     /\ SubSeq(b, 5 + nv + ne, 6 + nv + ne) = <<24, 1>>
             /\ (probe.arg[1] = <<118, 49>> /\ probe.arg[2] = <<65, 66, 67, 68>>)
                  => b = <<10, 2, 118, 49, 18, 4, 65, 66, 67, 68, 24, 1>>

\* create_params_protobuf has been applied to "v1" and "ABCD".
C13_Witness ==
    /\ probe.op = "create_params_protobuf"
    /\ probe.applied
    /\ probe.arg = << <<118, 49>>, <<65, 66, 67, 68>> >>
    /\ probe.result.tag = "bytes"


(***************************************************************************)
(* C14 as stated: for a 200 response, fetch_vt_transcript emits one        *)
(* segment per caption line that has the nested text and none for the      *)
(* others, so that no emitted segment has an empty text; when nothing is   *)
(* left it returns the no-data sentinel.                                   *)
(***************************************************************************)
HasText(line) == line = "text"

C14_VtSegmentsHaveText ==
    (/\ probe.op = "fetch_fn"
     /\ probe.applied
     /\ probe.arg[1] = VT
     /\ probe.arg[2].kind = "http"
     /\ probe.arg[2].status = 200)
      => LET kept == SelectSeq(probe.arg[2].lines, HasText)
         IN  /\ probe.result = (IF kept = << >> THEN NoData ELSE Data(kept))
             /\ \A k \in 1..Len(probe.result.segs) : probe.result.segs[k] # "emptytext"


(***************************************************************************)
(* C15: in every run, a fetch attempt is made for a provider of a row only *)
(* if the row's identifier for it is non-empty and the status the          *)
(* checkpoint file holds for it when the row is reached is absent or       *)
(* FAILED; and the first row a run processes, after an interruption as     *)
(* after a normal end, is the first row that the checkpoint file does not  *)
(* record as done.                                                         *)
(***************************************************************************)
\* The entry the checkpoint file holds for row k.
EntryOnDisk(k) == Get(load_progress(disk), rows[k].id, EmptyDict)

C15_FetchOnlyOpenSlots ==
    /\ \A p \in Providers :
         (InProcess /\ (pc \in {AtTry(p), AtSleep(p)} \/ tr[p] # << >>))
           => /\ IdOf(p) # ""
              /\ Get(EntryOnDisk(i), StatusKey(p), None) \in {None, STATUS_FAILED}
    /\ (InProcess /\ handled = << >>)
         => /\ ~is_done(EntryOnDisk(i))
            /\ \A k \in 1..(i - 1) : is_done(EntryOnDisk(k))

\* A run resumes after an interruption: under a cap of two the file records
\* row 1 as done and nothing for row 2, which is being fetched first.
C15_Witness ==
    /\ MAX_PER_SESSION = 2
    /\ handled = << >>
    /\ i = 2
    /\ rows[2].id \notin DOMAIN load_progress(disk)
    /\ \E p \in Providers : pc = AtTry(p)


(***************************************************************************)
(* C16 as stated: a response with another status than 200 makes the slot   *)
(* end NO_SUBTITLE with that one call (no sleep, no further call in the    *)
(* run), and a slot that ended so and was saved is never fetched again, in *)
(* this run or in a later one.  The last part is stated for the tracked    *)
(* slots.                                                                  *)
(***************************************************************************)
C16_Non200IsFinal ==
    \A p \in Providers :
      /\ (pc = AfterBlock(p) /\ http[p] \notin {0, 200})
           => /\ StatusOf(p) = STATUS_NO_SUBTITLE
              /\ ret[p] = STATUS_NO_SUBTITLE
              /\ LastEvent(tr[p]) = "none"
              /\ "raise" \notin Range(tr[p]) => Len(tr[p]) = 1
      /\ pc \in {AtTry(p), AtSleep(p)} => "none" \notin Range(tr[p])
      /\ pc = AtTry(p) => <<i, p>> \notin denied


(***************************************************************************)
(* C17: after process_video returns, the checkpoint is saved before the    *)
(* next row is examined; the file changes in save_progress only; each      *)
(* completed save goes with one increment of the session counter and each  *)
(* increment with one completed save, so the saves of a run number         *)
(* `processed`; and at every row boundary, inside process_video and when   *)
(* the run ends, the mapping in the file is the mapping in memory.         *)
(***************************************************************************)
C17_SavedAfterEveryRow ==
    /\ [](pc \in {"loop"} \cup {"vt", "vt_try", "vt_sleep", "yt", "yt_try", "yt_sleep", "ret"}
            => /\ load_progress(disk) = progress
               /\ processed > 0 => disk = Valid(progress)
               /\ Len(handled) = processed)
    /\ [][/\ pc = "ret" => pc' \in {"save", "idle"}
          /\ pc = "save" => pc' \in {"dump", "idle"}
          /\ pc = "dump" => pc' \in {"loop", "idle"}
          /\ disk' # disk => pc \in {"save", "dump"}
          /\ processed' \in {processed, processed + 1, 0}
          /\ processed' = processed + 1
               <=> (pc = "dump" /\ pc' = "loop" /\ disk' = Valid(progress))
          /\ (pc = "loop" /\ pc' = "idle") => load_progress(disk') = progress]_vars

\* A run has processed and saved two rows and is at a row boundary.
C17_Witness ==
    /\ pc = "loop"
    /\ processed = 2
    /\ Len(handled) = 2
    /\ disk = Valid(progress)
    /\ DOMAIN progress # {}


(***************************************************************************)
(* C18 as stated: whenever an entry of the checkpoint, in memory or in the *)
(* file, records OK for a provider, a transcript file named after the      *)
(* identifier that the same entry records for that provider has been       *)
(* written to the provider's directory.                                    *)
(***************************************************************************)
IdKey(p) == IF p = VT THEN "vtid" ELSE "ytid"

OkEntriesHaveFiles(m) ==
    \A id \in DOMAIN m : \A p \in Providers :
        m[id][StatusKey(p)] = STATUS_OK => m[id][IdKey(p)] \in files[p]

C18_OkEntryHasTranscript ==
    /\ OkEntriesHaveFiles(progress)
    /\ OkEntriesHaveFiles(load_progress(disk))


(***************************************************************************)
(* C19 as stated: when a block of process_video has set its provider's     *)
(* status to OK, the segment list it wrote to the provider's directory is  *)
(* not empty.                                                              *)
(***************************************************************************)
C19_OkMeansSegments ==
    \A p \in Providers :
        (pc = AfterBlock(p) /\ ret[p] = "data")
          => /\ StatusOf(p) = STATUS_OK
             /\ wrote[p] # << >>
             /\ wrote[p][1] # << >>


(***************************************************************************)
(* C20 as stated: under repeated runs over an unchanged row list, every    *)
(* row is eventually processed, that is, the checkpoint file eventually    *)
(* holds an entry for its row id, whatever the responses are.              *)
(***************************************************************************)
C20_EveryRowEventuallyProcessed ==
    \A k \in 1..NumRows : <>(rows[k].id \in DOMAIN load_progress(disk))

====
